---- MODULE Spec2Model ----
(***************************************************************************)
(* Model of the JetBrains MCP proxy (src/src/index.ts): the endpoint       *)
(* resolver with its change detection, the endpoint cache refreshed at     *)
(* startup and on a timer, and the two request handlers that forward to    *)
(* the cached endpoint.                                                    *)
(*                                                                         *)
(* The program is single-threaded JavaScript: a step of the model is one   *)
(* run-to-completion segment of the event loop, from the resolution of an  *)
(* awaited I/O promise (server.connect, fetch + body read) through every   *)
(* synchronous continuation chained on it, up to the next I/O await.  What *)
(* the IDE and the network answer is the input of the step.                *)
(***************************************************************************)
EXTENDS Integers, Sequences, FiniteSets, TLC

VARIABLES
    IDE_PORT,          \* process.env.IDE_PORT, fixed for the process lifetime
    pc,                \* position of runServer()
    cachedEndpoint,    \* index.ts:31
    previousResponse,  \* index.ts:37
    passes,            \* the updateIDEEndpoint() invocations, by start order
    started,           \* number of updateIDEEndpoint() invocations so far
    lastPass,          \* history: the resolution pass that finished last
    notifications,     \* history: calls of server.notification(list_changed)
    cachedBy,          \* history: start order of the pass that wrote the cache
    ide,               \* environment: the IDE instance a scenario assumes
    request            \* the inbound request being handled, if any

vars == <<IDE_PORT, pc, cachedEndpoint, previousResponse, passes, started,
          lastPass, notifications, cachedBy, ide, request>>

-----------------------------------------------------------------------------
(* Bounds of the model *)

\* updateIDEEndpoint() invocations explored: the startup one plus timer ticks
MaxPasses == 3

-----------------------------------------------------------------------------
(* JavaScript values *)

null == "<null>"
undefined == "<undefined>"

\* ToBoolean of a string-or-nullish value: `if (x)`, `!x`, `!!x`
Truthy(v) == v \notin {null, undefined, ""}

\* `a ?? b`
Coalesce(a, b) == IF a \in {null, undefined} THEN b ELSE a

-----------------------------------------------------------------------------
(* Program constants *)

PortLo == 63342
PortHi == 63352
ScanPorts == PortLo..PortHi

\* `http://127.0.0.1:${port}/api`
Endpoint(portText) == "http://127.0.0.1:" \o portText \o "/api"

-----------------------------------------------------------------------------
(* Inputs: the environment and what the IDE answers *)

\* values of process.env.IDE_PORT: unset, set but empty, a port inside the
\* scan range, a port outside it
EnvPorts == {undefined, "", "63345", "8080"}

\* bodies the IDE may serve at /mcp/list_tools
Payloads == {"", "P1", "P2"}

\* HTTP status codes an endpoint may answer with
Statuses == {200, 500}

\* Response.ok
ResponseOk(status) == status \in 200..299

\* what `await fetch(...)` followed by `await res.text()` can produce for a
\* probe: fetch rejects; a response whose body read rejects; a response with
\* a body
ProbeReplies ==
    {[kind |-> "reject", status |-> 0, body |-> null]}
    \cup [kind : {"response"}, status : {c \in Statuses : ~ResponseOk(c)},
          body : {null}]
    \cup [kind : {"bodyerror"}, status : {c \in Statuses : ResponseOk(c)},
          body : {null}]
    \cup [kind : {"response"}, status : {c \in Statuses : ResponseOk(c)},
          body : Payloads]

-----------------------------------------------------------------------------
(* State of one updateIDEEndpoint() invocation *)

NoPass == [pc |-> "unstarted", port |-> 0, endpoint |-> null, probes |-> <<>>]
DonePass == [pc |-> "finished", port |-> 0, endpoint |-> null, probes |-> <<>>]

\* no reply received (yet)
NoReply == [kind |-> "none", code |-> 0,
            failure |-> [isErrorInstance |-> FALSE, message |-> null],
            status |-> null, error |-> null]

\* no assumption on the IDE: any probe may get any reply
AnyIDE == [port |-> null, payload |-> null]

\* no IDE is listening on any port
NoIDE == [port |-> "", payload |-> null]

NoRequest == [kind |-> "none", pc |-> "idle", url |-> null, body |-> null,
              reply |-> NoReply, outcome |-> "none", text |-> null,
              isError |-> FALSE]

\* the module-level initialisers, for a process environment whose IDE_PORT
\* is one of envPorts and an IDE assumed to behave as `assumed`
InitState(envPorts, assumed) ==
    /\ IDE_PORT \in envPorts
    /\ pc = "start"
    /\ cachedEndpoint = null
    /\ previousResponse = null
    /\ passes = [i \in 1..MaxPasses |-> NoPass]
    /\ started = 0
    /\ lastPass = [result |-> "none", endpoint |-> null, probes |-> <<>>,
                   error |-> null]
    /\ notifications = 0
    /\ cachedBy = 0
    /\ ide = assumed
    /\ request = NoRequest

Init == InitState(EnvPorts, AnyIDE)

-----------------------------------------------------------------------------
(* Change detection and probing *)

\* sendToolsChanged(): one more list_changed notification handed to the server
sendToolsChanged(n) == n + 1

\* Variant: a rejected fetch escapes testListTools.
testListTools_ThrowsOnReject(reply, prev, notes) ==
    IF reply.kind = "response" /\ ResponseOk(reply.status)
    THEN [working |-> TRUE, previousResponse |-> reply.body,
          notifications |-> IF prev # null /\ prev # reply.body
                            THEN sendToolsChanged(notes) ELSE notes,
          threw |-> FALSE]
    ELSE [working |-> FALSE, previousResponse |-> prev,
          notifications |-> notes, threw |-> reply.kind = "reject"]

\* Faulty variants of testListTools: each is the function with one slip, used
\* to show that a property below depends on what the function does.
\* Variant: previousResponse is stored only while it is still null.
testListTools_KeepsFirstPayload(reply, prev, notes) ==
    IF reply.kind = "response" /\ ResponseOk(reply.status)
    THEN [working |-> TRUE,
          previousResponse |-> IF prev = null THEN reply.body ELSE prev,
          notifications |-> IF prev # null /\ prev # reply.body
                            THEN sendToolsChanged(notes) ELSE notes,
          threw |-> FALSE]
    ELSE [working |-> FALSE, previousResponse |-> prev,
          notifications |-> notes, threw |-> FALSE]

\* Variant: the comparison with the stored payload is missing.
testListTools_NotifiesEveryProbe(reply, prev, notes) ==
    IF reply.kind = "response" /\ ResponseOk(reply.status)
    THEN [working |-> TRUE,
          previousResponse |-> reply.body,
          notifications |-> IF prev # null
                            THEN sendToolsChanged(notes) ELSE notes,
          threw |-> FALSE]
    ELSE [working |-> FALSE, previousResponse |-> prev,
          notifications |-> notes, threw |-> FALSE]

\* Variant: the null check on the stored payload is missing.
testListTools_NotifiesFirstPayload(reply, prev, notes) ==
    IF reply.kind = "response" /\ ResponseOk(reply.status)
    THEN [working |-> TRUE,
          previousResponse |-> reply.body,
          notifications |-> IF prev # reply.body
                            THEN sendToolsChanged(notes) ELSE notes,
          threw |-> FALSE]
    ELSE [working |-> FALSE, previousResponse |-> prev,
          notifications |-> notes, threw |-> FALSE]

\* testListTools(endpoint), from the resolution of its fetch to its return:
\* the value returned and what it leaves in previousResponse / how many
\* notifications it has sent
testListTools(reply, prev, notes) ==
    IF reply.kind = "reject" THEN
        [working |-> FALSE, previousResponse |-> prev,
         notifications |-> notes, threw |-> FALSE]
    ELSE IF ~ResponseOk(reply.status) THEN
        [working |-> FALSE, previousResponse |-> prev,
         notifications |-> notes, threw |-> FALSE]
    ELSE IF reply.kind = "bodyerror" THEN
        [working |-> FALSE, previousResponse |-> prev,
         notifications |-> notes, threw |-> FALSE]
    ELSE
        [working |-> TRUE,
         previousResponse |-> reply.body,
         notifications |-> IF prev # null /\ prev # reply.body
                           THEN sendToolsChanged(notes) ELSE notes,
         threw |-> FALSE]

\* the ports findWorkingIDEEndpoint probes: the fixed port if one is set,
\* else the scan range
CandidatePorts(envPort) ==
    IF Truthy(envPort) THEN {envPort}
    ELSE {ToString(port) : port \in ScanPorts}

\* findWorkingIDEEndpoint() up to its first await: the first candidate
FirstCandidate(envPort) ==
    IF Truthy(envPort)
    THEN [pc |-> "probing", port |-> 0, endpoint |-> Endpoint(envPort),
          probes |-> <<>>]
    ELSE [pc |-> "probing", port |-> PortLo,
          endpoint |-> Endpoint(ToString(PortLo)), probes |-> <<>>]

\* the Error messages of findWorkingIDEEndpoint (index.ts:101, 121)
FixedPortError(envPort) ==
    "Specified IDE_PORT=" \o envPort \o " but it is not responding correctly."
ScanError == "No working IDE endpoint found in range 63342-63352"

\* what findWorkingIDEEndpoint does next: await the probe of another
\* candidate, return an endpoint, or throw
AwaitNext(port, probes, prev) ==
    [next |-> "await", endpoint |-> null, error |-> null, probes |-> probes,
     pass |-> [pc |-> "probing", port |-> port,
               endpoint |-> Endpoint(ToString(port)), probes |-> probes],
     previousResponse |-> prev]

Return(endpoint, probes, prev) ==
    [next |-> "return", endpoint |-> endpoint, error |-> null,
     probes |-> probes, pass |-> DonePass, previousResponse |-> prev]

Throw(message, probes, prev) ==
    [next |-> "throw", endpoint |-> null, error |-> message,
     probes |-> probes, pass |-> DonePass, previousResponse |-> prev]

\* Faulty variants of findWorkingIDEEndpoint.
\* Variant: a fixed port that does not answer falls back to the scan.
findWorkingIDEEndpoint_FallsBackToScan(envPort, pass, tested) ==
    LET probes == Append(pass.probes,
                         [endpoint |-> pass.endpoint, ok |-> tested.working])
        nextPort == IF Truthy(envPort) /\ pass.port = 0
                    THEN PortLo ELSE pass.port + 1
    IN
    IF tested.working
    THEN Return(pass.endpoint, probes, tested.previousResponse)
    ELSE IF nextPort <= PortHi
    THEN AwaitNext(nextPort, probes, tested.previousResponse)
    ELSE Throw(ScanError, probes, "")

\* Variant: the scan loop reads `port < 63352`, so the last port is skipped.
findWorkingIDEEndpoint_SkipsLastPort(envPort, pass, tested) ==
    LET probes == Append(pass.probes,
                         [endpoint |-> pass.endpoint, ok |-> tested.working])
    IN
    IF tested.working
    THEN Return(pass.endpoint, probes, tested.previousResponse)
    ELSE IF Truthy(envPort)
    THEN Throw(FixedPortError(envPort), probes, tested.previousResponse)
    ELSE IF pass.port + 1 < PortHi
    THEN AwaitNext(pass.port + 1, probes, tested.previousResponse)
    ELSE Throw(ScanError, probes, "")

\* Variant: an exhausted scan returns its last candidate instead of throwing.
findWorkingIDEEndpoint_ReturnsLastCandidate(envPort, pass, tested) ==
    LET probes == Append(pass.probes,
                         [endpoint |-> pass.endpoint, ok |-> tested.working])
    IN
    IF tested.working
    THEN Return(pass.endpoint, probes, tested.previousResponse)
    ELSE IF Truthy(envPort)
    THEN Throw(FixedPortError(envPort), probes, tested.previousResponse)
    ELSE IF pass.port + 1 <= PortHi
    THEN AwaitNext(pass.port + 1, probes, tested.previousResponse)
    ELSE Return(pass.endpoint, probes, "")

\* findWorkingIDEEndpoint() from the return of one testListTools to its next
\* await, its return or its throw.  `tested` is what testListTools gave; an
\* exception escaping testListTools would escape the awaits at index.ts:96
\* and 109 as well.
findWorkingIDEEndpoint(envPort, pass, tested) ==
    LET probes == Append(pass.probes,
                         [endpoint |-> pass.endpoint, ok |-> tested.working])
    IN
    IF tested.threw
    THEN Throw("<error thrown by testListTools>", probes,
               tested.previousResponse)
    ELSE IF Truthy(envPort) THEN
        IF tested.working
        THEN Return(pass.endpoint, probes, tested.previousResponse)
        ELSE Throw(FixedPortError(envPort), probes, tested.previousResponse)
    ELSE
        IF tested.working
        THEN Return(pass.endpoint, probes, tested.previousResponse)
        ELSE IF pass.port + 1 <= PortHi
        THEN AwaitNext(pass.port + 1, probes, tested.previousResponse)
        ELSE Throw(ScanError, probes, "")

\* Faulty variant of updateIDEEndpoint: a failed refresh clears the cache.
updateIDEEndpoint_ClearsOnFailure(found, cached) ==
    IF found.next = "return"
    THEN [cachedEndpoint |-> found.endpoint, threw |-> FALSE]
    ELSE [cachedEndpoint |-> null, threw |-> FALSE]

\* Variant: the first endpoint resolved stays cached for good.
updateIDEEndpoint_KeepsFirstEndpoint(found, cached) ==
    IF found.next = "return" /\ cached = null
    THEN [cachedEndpoint |-> found.endpoint, threw |-> FALSE]
    ELSE [cachedEndpoint |-> cached, threw |-> FALSE]

\* Variant: a failed resolution caches the first endpoint of the scan range.
updateIDEEndpoint_FallsBackToDefault(found, cached) ==
    IF found.next = "return"
    THEN [cachedEndpoint |-> found.endpoint, threw |-> FALSE]
    ELSE [cachedEndpoint |-> Endpoint(ToString(PortLo)), threw |-> FALSE]

\* Variant: the catch block of updateIDEEndpoint rethrows.
updateIDEEndpoint_Rethrows(found, cached) ==
    IF found.next = "return"
    THEN [cachedEndpoint |-> found.endpoint, threw |-> FALSE]
    ELSE [cachedEndpoint |-> cached, threw |-> TRUE]

\* updateIDEEndpoint(): what the cache holds after findWorkingIDEEndpoint
\* returned (found.next = "return") or threw (found.next = "throw")
\* and whether it lets the failure escape to its caller
updateIDEEndpoint(found, cached) ==
    IF found.next = "return"
    THEN [cachedEndpoint |-> found.endpoint, threw |-> FALSE]
    ELSE [cachedEndpoint |-> cached, threw |-> FALSE]

\* runServer() after `await updateIDEEndpoint()`: setInterval, then running;
\* a rejection would end runServer (logged at index.ts:273).  Only the
\* startup invocation is awaited by runServer.
AfterUpdate(position, id, threw) ==
    IF position = "startup" /\ id = 1
    THEN IF threw THEN "failed" ELSE "running"
    ELSE position

-----------------------------------------------------------------------------
(* runServer *)

\* server.connect(transport) resolves; runServer goes on to call
\* updateIDEEndpoint(), which runs to the first fetch of the startup pass
Connect ==
    /\ pc = "start"
    /\ pc' = "startup"
    /\ started' = 1
    /\ passes' = [passes EXCEPT ![1] = FirstCandidate(IDE_PORT)]
    /\ UNCHANGED <<IDE_PORT, ide, cachedBy,
                   cachedEndpoint, previousResponse, lastPass,
                   notifications, request>>

\* server.connect(transport) rejects; runServer rethrows, the rejection is
\* logged at index.ts:273 and nothing else is ever scheduled
ConnectFails ==
    /\ pc = "start"
    /\ pc' = "failed"
    /\ UNCHANGED <<IDE_PORT, ide, cachedBy,
                   cachedEndpoint, previousResponse, passes, started,
                   lastPass, notifications, request>>

\* the setInterval callback fires: a new updateIDEEndpoint() invocation starts,
\* whether or not earlier ones have finished
Tick ==
    /\ pc = "running"
    /\ started < MaxPasses
    /\ started' = started + 1
    /\ passes' = [passes EXCEPT ![started + 1] = FirstCandidate(IDE_PORT)]
    /\ UNCHANGED <<IDE_PORT, ide, cachedBy,
                   pc, cachedEndpoint, previousResponse, lastPass,
                   notifications, request>>

\* the probe of pass `id` gets its reply: testListTools returns,
\* findWorkingIDEEndpoint issues the next probe, returns or throws, and on
\* return/throw updateIDEEndpoint and (at startup) runServer continue
ProbeReply(id, reply) ==
    /\ passes[id].pc = "probing"
    /\ LET tested == testListTools(reply, previousResponse, notifications)
           found == findWorkingIDEEndpoint(IDE_PORT, passes[id], tested)
       IN /\ passes' = [passes EXCEPT ![id] = found.pass]
          /\ previousResponse' = found.previousResponse
          /\ notifications' = tested.notifications
          /\ IF found.next = "await"
             THEN UNCHANGED <<cachedEndpoint, cachedBy, lastPass, pc>>
             ELSE LET updated == updateIDEEndpoint(found, cachedEndpoint)
                  IN /\ cachedEndpoint' = updated.cachedEndpoint
                     /\ cachedBy' = IF found.next = "return" THEN id
                                    ELSE cachedBy
                     /\ lastPass' = [result |-> found.next,
                                     endpoint |-> found.endpoint,
                                     probes |-> found.probes,
                                     error |-> found.error]
                     /\ pc' = AfterUpdate(pc, id, updated.threw)
    /\ UNCHANGED <<IDE_PORT, ide, started, request>>

Probe == \E id \in 1..MaxPasses : \E reply \in ProbeReplies : ProbeReply(id, reply)

-----------------------------------------------------------------------------
(* Request handlers *)

\* tool names and JSON-serialised arguments a client may send
ToolNames == {"get_open_file"}
ToolArgs == {"{}"}

\* values thrown by fetch() or response.json(): Error instances with a
\* message (possibly empty), or a value that is no Error
Failures ==
    {[isErrorInstance |-> TRUE, message |-> "fetch failed"],
     [isErrorInstance |-> TRUE, message |-> ""],
     [isErrorInstance |-> FALSE, message |-> undefined]}

NoFailure == [isErrorInstance |-> FALSE, message |-> null]

\* values of the `status` and `error` fields of the IDE's JSON reply
StatusValues == {null, "", "ok text"}
ErrorValues == {null, "", "boom"}

\* what `await fetch(...)` followed by `await response.json()` can produce
\* for a forwarded tool call: fetch rejects, a non-2xx or 2xx response whose
\* body is never parsed or fails to parse, a 2xx response with a parsed body
CallReplies ==
    [kind : {"reject", "parseerror"}, code : {200}, failure : Failures,
     status : {null}, error : {null}]
    \cup [kind : {"response"}, code : Statuses \ {200}, failure : {NoFailure},
          status : StatusValues \ {""}, error : ErrorValues \ {""}]
    \cup [kind : {"response"}, code : {200}, failure : {NoFailure},
          status : StatusValues, error : ErrorValues]

\* tool lists the IDE may serve to the list-tools handler
ToolLists == {"[T1]"}

\* the same for the list-tools handler; status carries the parsed tool list
ListReplies ==
    [kind : {"reject", "parseerror"}, code : {200}, failure : Failures,
     status : {null}, error : {null}]
    \cup [kind : {"response"}, code : Statuses, failure : {NoFailure},
          status : ToolLists, error : {null}]

\* a handler that returned `text`/`isError`, having received `reply`
Returned(kind, reply, text, isError) ==
    [kind |-> kind, pc |-> "done", url |-> null, body |-> null,
     reply |-> reply, outcome |-> "returned", text |-> text,
     isError |-> isError]

\* a handler that threw an Error with `message`
Thrown(kind, reply, message) ==
    [kind |-> kind, pc |-> "done", url |-> null, body |-> null,
     reply |-> reply, outcome |-> "thrown", text |-> message,
     isError |-> FALSE]

\* a handler awaiting its fetch of `url`
Fetching(kind, url, body) ==
    [kind |-> kind, pc |-> "fetching", url |-> url, body |-> body,
     reply |-> NoReply, outcome |-> "none", text |-> null, isError |-> FALSE]

\* handleToolCall(name, args) up to its fetch: throws when nothing is cached,
\* else posts to the endpoint cached at this moment
handleToolCall(cached, name, args) ==
    IF ~Truthy(cached)
    THEN Thrown("call", NoReply, "No working IDE endpoint available.")
    ELSE Fetching("call", cached \o "/mcp/" \o name, args)

\* Variant: the catch block rethrows instead of returning an error result.
CatchToolCall_Rethrows(reply, failure) ==
    Thrown("call", reply,
           IF failure.isErrorInstance THEN failure.message
           ELSE "Unknown error")

\* the catch block of handleToolCall
CatchToolCall(reply, failure) ==
    Returned("call", reply,
             IF failure.isErrorInstance THEN failure.message
             ELSE "Unknown error",
             TRUE)

\* Variant: the body is parsed whatever the HTTP status is.
handleToolCallReply_ParsesAnyStatus(reply) ==
    IF reply.kind = "reject" THEN CatchToolCall(reply, reply.failure)
    ELSE IF reply.kind = "parseerror" THEN CatchToolCall(reply, reply.failure)
    ELSE Returned("call", reply, Coalesce(reply.status, reply.error),
                  Truthy(reply.error))

\* handleToolCall from the resolution of its fetch to its return
handleToolCallReply(reply) ==
    IF reply.kind = "reject" THEN CatchToolCall(reply, reply.failure)
    ELSE IF ~ResponseOk(reply.code) THEN
        CatchToolCall(reply,
            [isErrorInstance |-> TRUE,
             message |-> "Response failed: " \o ToString(reply.code)])
    ELSE IF reply.kind = "parseerror" THEN CatchToolCall(reply, reply.failure)
    ELSE Returned("call", reply, Coalesce(reply.status, reply.error),
                  Truthy(reply.error))

\* Variant: handleToolCall yields between its check of cachedEndpoint and
\* its fetch, which then reads whatever a refresh has written meanwhile.
CallToolRequest_YieldsBeforeFetch ==
    /\ pc \in {"startup", "running"}
    /\ request.pc = "idle"
    /\ \E name \in ToolNames : \E args \in ToolArgs :
       \E later \in {Endpoint(port) : port \in CandidatePorts(IDE_PORT)} :
          request' = IF Truthy(cachedEndpoint)
                     THEN handleToolCall(later, name, args)
                     ELSE handleToolCall(cachedEndpoint, name, args)
    /\ UNCHANGED <<IDE_PORT, ide, cachedBy,
                   pc, cachedEndpoint, previousResponse, passes,
                   started, lastPass, notifications>>

\* the CallToolRequestSchema handler: awaits handleToolCall, returns its
\* result and rethrows what it throws
CallToolRequest ==
    /\ pc \in {"startup", "running"}
    /\ request.pc = "idle"
    /\ \E name \in ToolNames : \E args \in ToolArgs :
          request' = handleToolCall(cachedEndpoint, name, args)
    /\ UNCHANGED <<IDE_PORT, ide, cachedBy,
                   pc, cachedEndpoint, previousResponse, passes,
                   started, lastPass, notifications>>

CallToolReply ==
    /\ request.pc = "fetching"
    /\ request.kind = "call"
    /\ \E reply \in CallReplies : request' = handleToolCallReply(reply)
    /\ UNCHANGED <<IDE_PORT, ide, cachedBy,
                   pc, cachedEndpoint, previousResponse, passes,
                   started, lastPass, notifications>>

\* the ListToolsRequestSchema handler up to its fetch
listTools(cached) ==
    IF ~Truthy(cached)
    THEN Thrown("list", NoReply, "No working IDE endpoint available.")
    ELSE Fetching("list", cached \o "/mcp/list_tools", null)

\* the ListToolsRequestSchema handler from the resolution of its fetch on
listToolsReply(reply) ==
    IF reply.kind = "reject" THEN Thrown("list", reply, reply.failure.message)
    ELSE IF ~ResponseOk(reply.code)
    THEN Thrown("list", reply, "Unable to list tools")
    ELSE IF reply.kind = "parseerror"
    THEN Thrown("list", reply, reply.failure.message)
    ELSE Returned("list", reply, reply.status, FALSE)

ListToolsRequest ==
    /\ pc \in {"startup", "running"}
    /\ request.pc = "idle"
    /\ request' = listTools(cachedEndpoint)
    /\ UNCHANGED <<IDE_PORT, ide, cachedBy,
                   pc, cachedEndpoint, previousResponse, passes,
                   started, lastPass, notifications>>

\* Variant: the list-tools handler feeds the tool list it fetched to the
\* change detection.
ListToolsReply_FeedsChangeDetector ==
    /\ request.pc = "fetching"
    /\ request.kind = "list"
    /\ \E reply \in ListReplies :
          /\ request' = listToolsReply(reply)
          /\ IF request'.outcome = "returned"
             THEN /\ previousResponse' = request'.text
                  /\ notifications' =
                        IF previousResponse \notin {null, request'.text}
                        THEN sendToolsChanged(notifications)
                        ELSE notifications
             ELSE UNCHANGED <<previousResponse, notifications>>
    /\ UNCHANGED <<IDE_PORT, ide, cachedBy, pc, cachedEndpoint, passes,
                   started, lastPass>>

\* the ListToolsRequestSchema handler from the resolution of its fetch on
ListToolsReply ==
    /\ request.pc = "fetching"
    /\ request.kind = "list"
    /\ \E reply \in ListReplies : request' = listToolsReply(reply)
    /\ UNCHANGED <<IDE_PORT, ide, cachedBy,
                   pc, cachedEndpoint, previousResponse, passes,
                   started, lastPass, notifications>>

\* the server writes the handler's result (or its error) to the transport
Respond ==
    /\ request.pc = "done"
    /\ request' = NoRequest
    /\ UNCHANGED <<IDE_PORT, ide, cachedBy,
                   pc, cachedEndpoint, previousResponse, passes,
                   started, lastPass, notifications>>

-----------------------------------------------------------------------------
(* Specifications *)

Next ==
    \/ Connect
    \/ ConnectFails
    \/ Tick
    \/ Probe
    \/ CallToolRequest
    \/ CallToolReply
    \/ ListToolsRequest
    \/ ListToolsReply
    \/ Respond

\* the whole program: startup, periodic refresh and inbound requests
Spec == Init /\ [][Next]_vars

\* the resolver and the cache alone: no inbound request arrives.  The request
\* handlers write none of the resolver's variables.
ResolverNext ==
    \/ Connect
    \/ ConnectFails
    \/ Tick
    \/ Probe

ResolverSpec == Init /\ [][ResolverNext]_vars

\* the resolver in an environment where every probe that succeeds serves the
\* same payload and no resolution pass fails
SteadyPayload == "P1"

SteadyReplies ==
    {r \in ProbeReplies :
        (r.kind = "response" /\ ResponseOk(r.status)) => r.body = SteadyPayload}

SteadyProbe ==
    \E id \in 1..MaxPasses : \E reply \in SteadyReplies :
        /\ ProbeReply(id, reply)
        /\ lastPass'.result # "throw"

SteadyNext ==
    \/ Connect
    \/ Tick
    \/ SteadyProbe

SteadySpec == Init /\ [][SteadyNext]_vars

\* The scenarios below assume one IDE instance: the port it listens on
\* answers the probe with 200 and the instance's tool list, every other
\* port refuses or answers without success.
EnvAllows(endpoint, reply) ==
    IF endpoint = Endpoint(ide.port)
    THEN /\ reply.kind = "response"
         /\ ResponseOk(reply.status)
         /\ reply.body = ide.payload
    ELSE ~(reply.kind = "response" /\ ResponseOk(reply.status))

EnvProbe ==
    \E id \in 1..MaxPasses : \E reply \in ProbeReplies :
        /\ EnvAllows(passes[id].endpoint, reply)
        /\ ProbeReply(id, reply)

\* IDE restart in scan mode: the IDE serves tool list P1 on port 63345 and,
\* once the bridge has cached that endpoint, comes back on port 63348 with
\* tool list P2
BeforeRestart == [port |-> "63345", payload |-> "P1"]
AfterRestart == [port |-> "63348", payload |-> "P2"]

IDERestart ==
    /\ ide = BeforeRestart
    /\ cachedEndpoint = Endpoint(BeforeRestart.port)
    /\ previousResponse = BeforeRestart.payload
    /\ ide' = AfterRestart
    /\ UNCHANGED <<IDE_PORT, pc, cachedEndpoint, previousResponse, passes,
                   started, lastPass, notifications, cachedBy, request>>

RestartNext ==
    \/ Connect
    \/ Tick
    \/ IDERestart
    \/ EnvProbe

RestartSpec == InitState({undefined, ""}, BeforeRestart) /\ [][RestartNext]_vars

\* IDE coming up late: nothing answers at first; at some point an IDE starts
\* on a port the resolver probes and answers from then on.  The timer keeps
\* firing and every fetch settles, so Tick and the probe replies are fair.
IDEStart ==
    /\ ide = NoIDE
    /\ \E port \in CandidatePorts(IDE_PORT) : \E payload \in Payloads :
          ide' = [port |-> port, payload |-> payload]
    /\ UNCHANGED <<IDE_PORT, pc, cachedEndpoint, previousResponse, passes,
                   started, lastPass, notifications, cachedBy, request>>

RecoveryNext ==
    \/ Connect
    \/ Tick
    \/ IDEStart
    \/ EnvProbe

RecoverySpec ==
    /\ InitState(EnvPorts, NoIDE)
    /\ [][RecoveryNext]_vars
    /\ WF_vars(Tick)
    /\ WF_vars(EnvProbe)

-----------------------------------------------------------------------------
(* Claims *)

\* a probe reply that testListTools reports as working
ProbeSucceeds(reply) == reply.kind = "response" /\ ResponseOk(reply.status)

\* pass `id` finishes in this step
PassFinishes(id) == passes[id].pc = "probing" /\ passes'[id].pc = "finished"

\* C1: every tool call ends in a returned, well-formed result {content,
\* isError}, never in a thrown error; with no endpoint cached the result is
\* an error result saying that no IDE endpoint is available.
C1_ToolCallAlwaysReturnsResult ==
    (request.kind = "call" /\ request.pc = "done") =>
        /\ request.outcome = "returned"
        /\ request.isError \in BOOLEAN
        /\ request.text \notin {null, undefined}

\* C2: for a 2xx reply {status, error} with exactly one field non-null,
\* isError is true exactly when error is non-null (the empty string
\* included) and the text is the non-null field.
C2_IsErrorIffErrorNonNull ==
    (/\ request.kind = "call"
     /\ request.pc = "done"
     /\ request.reply.kind = "response"
     /\ ResponseOk(request.reply.code)
     /\ (request.reply.status = null) # (request.reply.error = null)) =>
        /\ request.outcome = "returned"
        /\ request.isError = (request.reply.error # null)
        /\ request.text = IF request.reply.error # null
                          THEN request.reply.error ELSE request.reply.status

\* C3: no inbound request is handled while the startup resolution pass is
\* still in progress.
C3_NoRequestDuringStartupResolution ==
    pc = "startup" => request.pc = "idle"

\* C4 as stated: with a fixed port configured, no pass ever probes an
\* endpoint of the scan range 63342..63352.
C4_FixedPortNeverProbesScanRange ==
    Truthy(IDE_PORT) =>
        /\ \A id \in 1..MaxPasses :
              passes[id].pc = "probing" =>
                  passes[id].endpoint \notin
                      {Endpoint(ToString(p)) : p \in ScanPorts}
        /\ \A i \in 1..Len(lastPass.probes) :
              lastPass.probes[i].endpoint \notin
                  {Endpoint(ToString(p)) : p \in ScanPorts}

\* C4 amended: with a fixed port configured, every pass issues exactly one
\* probe, against the endpoint built from that port, and probes no other
\* endpoint; it returns exactly that endpoint when the probe succeeds and
\* throws at once when it fails; only that endpoint is ever cached.
C4_FixedPortProbesOnlyConfiguredEndpoint ==
    Truthy(IDE_PORT) =>
        /\ \A id \in 1..MaxPasses :
              passes[id].pc = "probing" =>
                  /\ passes[id].probes = <<>>
                  /\ passes[id].endpoint = Endpoint(IDE_PORT)
        /\ lastPass.result # "none" =>
              /\ Len(lastPass.probes) = 1
              /\ lastPass.probes[1].endpoint = Endpoint(IDE_PORT)
              /\ lastPass.probes[1].ok =>
                    /\ lastPass.result = "return"
                    /\ lastPass.endpoint = Endpoint(IDE_PORT)
              /\ ~lastPass.probes[1].ok => lastPass.result = "throw"
        /\ cachedEndpoint \in {null, Endpoint(IDE_PORT)}

\* a fixed-port pass succeeded and a later one failed, for a port inside and
\* a port outside the scan range
C4_Witness ==
    /\ Truthy(IDE_PORT)
    /\ cachedEndpoint = Endpoint(IDE_PORT)
    /\ lastPass.result = "throw"

\* C5: with no fixed port, a pass probes 63342, 63343, ... in ascending
\* order, one port at a time; it returns the endpoint of the first port whose
\* probe succeeds and probes nothing after it, and it fails only after all of
\* 63342..63352 have failed.
C5_ScanReturnsLowestWorkingPort ==
    ~Truthy(IDE_PORT) =>
        /\ \A id \in 1..MaxPasses :
              passes[id].pc = "probing" =>
                  /\ Len(passes[id].probes) < PortHi - PortLo + 1
                  /\ passes[id].endpoint =
                        Endpoint(ToString(PortLo + Len(passes[id].probes)))
                  /\ \A i \in 1..Len(passes[id].probes) :
                        passes[id].probes[i] =
                            [endpoint |-> Endpoint(ToString(PortLo + i - 1)),
                             ok |-> FALSE]
        /\ lastPass.result # "none" =>
              LET n == Len(lastPass.probes) IN
              /\ n \in 1..(PortHi - PortLo + 1)
              /\ \A i \in 1..n :
                    /\ lastPass.probes[i].endpoint =
                          Endpoint(ToString(PortLo + i - 1))
                    /\ i < n => ~lastPass.probes[i].ok
              /\ lastPass.result = "return" =>
                    /\ lastPass.probes[n].ok
                    /\ lastPass.endpoint = lastPass.probes[n].endpoint
                    /\ cachedEndpoint = lastPass.endpoint
              /\ lastPass.result = "throw" =>
                    /\ n = PortHi - PortLo + 1
                    /\ ~lastPass.probes[n].ok

\* a scan found its endpoint in the middle of the range, after the lower
\* ports had failed
C5_Witness ==
    /\ ~Truthy(IDE_PORT)
    /\ lastPass.result = "return"
    /\ lastPass.endpoint = Endpoint("63348")
    /\ Len(lastPass.probes) = 7

\* C6: a probe that succeeds with a payload different from the stored
\* non-null previous payload overwrites the stored payload with the new one
\* and sends exactly one notification.
C6_ChangedPayloadStoredAndNotifiedOnce ==
    [][\A id \in 1..MaxPasses : \A reply \in ProbeReplies :
          (/\ ProbeSucceeds(reply)
           /\ previousResponse # null
           /\ previousResponse # reply.body
           /\ ProbeReply(id, reply)) =>
              /\ previousResponse' = reply.body
              /\ notifications' = notifications + 1]_vars

\* with a fixed port (the stored payload is never reset there) the payload
\* changed to P2 and one notification was sent
C6_Witness ==
    /\ Truthy(IDE_PORT)
    /\ previousResponse = "P2"
    /\ notifications = 1

\* C7: when every successful probe serves the same payload and no pass
\* fails, no notification is ever sent, however many passes run.
C7_SamePayloadNeverNotifies ==
    /\ notifications = 0
    /\ previousResponse \in {null, SteadyPayload}

\* two passes have succeeded with the same payload
C7_Witness ==
    /\ previousResponse = SteadyPayload
    /\ passes[1].pc = "finished"
    /\ passes[2].pc = "finished"

\* C8: after any resolution pass that fails entirely, in fixed-port mode or
\* in scan mode, the stored payload is the empty sentinel (so that the next
\* successful probe is notified).
C8_FailedPassResetsStoredPayload ==
    lastPass.result = "throw" => previousResponse = ""

\* C9 as stated: the first successful probe ever (nothing cached before it)
\* stores its payload and sends no notification, whatever happened before.
C9_FirstPayloadNeverNotifies ==
    [][\A id \in 1..MaxPasses : \A reply \in ProbeReplies :
          (/\ ProbeReply(id, reply)
           /\ ProbeSucceeds(reply)
           /\ cachedEndpoint = null) =>
              /\ previousResponse' = reply.body
              /\ notifications' = notifications]_vars

\* C9 amended: the first successful probe ever stores its payload; it sends
\* no notification when previousResponse is still null (failed probes and
\* failed fixed-port passes leave it null); after a scan pass that failed
\* entirely previousResponse is "" and the first payload is notified exactly
\* when it is not empty.
C9_FirstPayloadNotifiesOnlyAfterFailedScan ==
    [][\A id \in 1..MaxPasses : \A reply \in ProbeReplies :
          (/\ ProbeReply(id, reply)
           /\ ProbeSucceeds(reply)
           /\ cachedEndpoint = null) =>
              /\ previousResponse' = reply.body
              /\ previousResponse \in {null, ""}
              /\ previousResponse = null => notifications' = notifications
              /\ previousResponse = "" =>
                    /\ ~Truthy(IDE_PORT)
                    /\ notifications' =
                          IF reply.body # "" THEN notifications + 1
                          ELSE notifications]_vars

\* the startup scan found its first payload after lower ports had failed,
\* and nothing was notified
C9_Witness ==
    /\ ~Truthy(IDE_PORT)
    /\ started = 1
    /\ lastPass.result = "return"
    /\ Len(lastPass.probes) > 1
    /\ previousResponse = "P1"
    /\ notifications = 0

\* C10: a refresh whose resolution pass fails leaves cachedEndpoint as it was
\* and lets no failure escape to runServer; once cachedEndpoint is non-null
\* it never becomes null again.
C10_FailedRefreshRetainsEndpoint ==
    [][/\ cachedEndpoint # null => cachedEndpoint' # null
       /\ \A id \in 1..MaxPasses :
             (PassFinishes(id) /\ lastPass'.result = "throw") =>
                 /\ cachedEndpoint' = cachedEndpoint
                 /\ pc' \in {"running"}]_vars

\* an endpoint is cached although the pass that finished last failed
C10_Witness ==
    /\ cachedEndpoint # null
    /\ lastPass.result = "throw"

\* C11 (as stated): with no fixed port, after a resolution pass in which no
\* port of 63342..63352 answers 2xx, no endpoint is cached.
C11_NoEndpointCachedAfterFailedScan ==
    [][\A id \in 1..MaxPasses :
          (/\ PassFinishes(id)
           /\ ~Truthy(IDE_PORT)
           /\ lastPass'.result = "throw") => cachedEndpoint' = null]_vars

\* C11: with no fixed port, a resolution pass in which no port of
\* 63342..63352 answers 2xx has probed the eleven ports in ascending order,
\* fails with the error "No working IDE endpoint found in range 63342-63352"
\* and caches nothing: cachedEndpoint is left as it was before the pass
\* finished (null only if nothing had been resolved before).
C11_FailedScanThrowsAndCachesNothing ==
    [][\A id \in 1..MaxPasses : \A reply \in ProbeReplies :
          (/\ ~Truthy(IDE_PORT)
           /\ ~ProbeSucceeds(reply)
           /\ passes[id].port = PortHi
           /\ ProbeReply(id, reply)) =>
              /\ lastPass'.result = "throw"
              /\ lastPass'.error = ScanError
              /\ Len(lastPass'.probes) = PortHi - PortLo + 1
              /\ \A i \in 1..Len(lastPass'.probes) :
                    /\ ~lastPass'.probes[i].ok
                    /\ lastPass'.probes[i].endpoint =
                           Endpoint(ToString(PortLo + i - 1))
              /\ cachedEndpoint' = cachedEndpoint]_vars

\* a scan has failed while an endpoint resolved earlier is still cached
C11_Witness ==
    /\ ~Truthy(IDE_PORT)
    /\ lastPass.result = "throw"
    /\ lastPass.error = ScanError
    /\ cachedEndpoint # null

\* C12: in scan mode, with the endpoint of port 63345 cached and payload P1
\* stored, once 63345 stops answering and 63348 alone answers with payload
\* P2, the first refresh pass to finish caches the endpoint of port 63348
\* after finding 63342..63347 unreachable, and one tool-list-changed
\* notification is sent in that pass; until then the old endpoint stays
\* cached and nothing is notified, afterwards nothing more is notified.
C12_RestartReResolvesAndNotifiesOnce ==
    /\ [](ide = AfterRestart =>
            \/ /\ cachedEndpoint = Endpoint(BeforeRestart.port)
               /\ previousResponse = BeforeRestart.payload
               /\ notifications = 0
            \/ /\ cachedEndpoint = Endpoint(AfterRestart.port)
               /\ previousResponse = AfterRestart.payload
               /\ notifications = 1)
    /\ [][\A id \in 1..MaxPasses :
             (/\ PassFinishes(id)
              /\ ide = AfterRestart
              /\ cachedEndpoint = Endpoint(BeforeRestart.port)) =>
                 /\ lastPass'.result = "return"
                 /\ Len(lastPass'.probes) = 7
                 /\ cachedEndpoint' = Endpoint(AfterRestart.port)
                 /\ notifications' = notifications + 1]_vars

\* after the restart a refresh pass has re-resolved to port 63348
C12_Witness ==
    /\ ide = AfterRestart
    /\ lastPass.result = "return"
    /\ cachedEndpoint = Endpoint("63348")
    /\ cachedBy > 1
    /\ notifications = 1

\* C13: a forwarded tool call that the IDE answers with a non-2xx status
\* returns a result with isError = true whose text is "Response failed: "
\* followed by the status code, whatever {status, error} the body holds.
C13_NonOkStatusIsErrorResult ==
    (/\ request.kind = "call"
     /\ request.pc = "done"
     /\ request.reply.kind = "response"
     /\ ~ResponseOk(request.reply.code)) =>
        /\ request.outcome = "returned"
        /\ request.isError = TRUE
        /\ request.text = "Response failed: " \o ToString(request.reply.code)

\* a 500 reply whose body would read as a success was turned into an error
C13_Witness ==
    /\ request.kind = "call"
    /\ request.pc = "done"
    /\ request.reply.code = 500
    /\ request.reply.status = "ok text"
    /\ request.reply.error = null
    /\ request.isError
    /\ request.text = "Response failed: 500"

\* C14: when fetch rejects or the body of a 2xx reply fails to parse while a
\* tool call is forwarded, the call returns a result with isError = true
\* whose text is the message of the Error, or "Unknown error" when what was
\* thrown is no Error.
C14_ForwardingExceptionIsErrorResult ==
    (/\ request.kind = "call"
     /\ request.pc = "done"
     /\ request.reply.kind \in {"reject", "parseerror"}) =>
        /\ request.outcome = "returned"
        /\ request.isError = TRUE
        /\ request.text = IF request.reply.failure.isErrorInstance
                          THEN request.reply.failure.message
                          ELSE "Unknown error"

\* a rejected fetch was turned into an error result with the Error's message
C14_Witness ==
    /\ request.kind = "call"
    /\ request.pc = "done"
    /\ request.reply.kind = "reject"
    /\ request.reply.failure.isErrorInstance
    /\ request.outcome = "returned"
    /\ request.isError
    /\ request.text = "fetch failed"

\* C15: a failed resolution pass never stops the periodic refresh (after
\* the startup pass the server stays in its running position, whatever
\* passes fail), so if an endpoint the resolver probes starts answering while
\* a refresh is still to come, the cache eventually holds that endpoint.
C15_FailuresRetriedUntilResolved ==
    /\ [](lastPass.result = "throw" => pc = "running")
    /\ [][pc = "running" => pc' = "running"]_vars
    /\ (/\ ide # NoIDE
        /\ pc \in {"startup", "running"}
        /\ started < MaxPasses) ~> (cachedEndpoint = Endpoint(ide.port))

\* a refresh resolved the endpoint of an IDE that came up after a failed scan
C15_Witness ==
    /\ ide # NoIDE
    /\ cachedEndpoint = Endpoint(ide.port)
    /\ cachedBy > 1
    /\ notifications = 1

\* C16: a request handler takes one snapshot of cachedEndpoint in the step
\* in which it starts: with that value null it throws, otherwise it sends
\* its HTTP request to exactly that value, whatever refresh passes are in
\* progress; the step leaves cachedEndpoint alone, and cachedEndpoint only
\* ever holds null or the complete endpoint of a probed port.
C16_RequestUsesOneSnapshot ==
    /\ [](\/ cachedEndpoint = null
          \/ \E port \in CandidatePorts(IDE_PORT) :
                cachedEndpoint = Endpoint(port))
    /\ [][(request.pc = "idle" /\ request'.pc # "idle") =>
            /\ cachedEndpoint' = cachedEndpoint
            /\ IF Truthy(cachedEndpoint)
               THEN /\ request'.pc = "fetching"
                    /\ \/ /\ request'.kind = "list"
                          /\ request'.url = cachedEndpoint \o "/mcp/list_tools"
                       \/ /\ request'.kind = "call"
                          /\ \E name \in ToolNames :
                                request'.url = cachedEndpoint \o "/mcp/" \o name
               ELSE /\ request'.outcome = "thrown"
                    /\ request'.text = "No working IDE endpoint available."]_vars

\* a tool call is still in flight to the endpoint it read when it started,
\* a refresh having cached another endpoint since, with a pass in progress
C16_Witness ==
    /\ request.kind = "call"
    /\ request.pc = "fetching"
    /\ request.url = Endpoint("63342") \o "/mcp/get_open_file"
    /\ cachedEndpoint = Endpoint("63343")
    /\ \E id \in 1..MaxPasses : passes[id].pc = "probing"

\* C17: cachedEndpoint is written only in the step in which a resolution
\* pass finishes on a successful probe, and with the endpoint that probe went
\* to; so whenever cachedEndpoint is not null, the pass that wrote it has
\* completed and the endpoint answered a probe of that pass.
C17_CachedEndpointPassedAProbe ==
    /\ [](cachedEndpoint # null =>
            /\ cachedBy \in 1..MaxPasses
            /\ passes[cachedBy].pc = "finished")
    /\ [](cachedEndpoint = null => cachedBy = 0)
    /\ [][<<cachedEndpoint, cachedBy>>' # <<cachedEndpoint, cachedBy>> =>
            \E id \in 1..MaxPasses : \E reply \in ProbeReplies :
                /\ ProbeReply(id, reply)
                /\ ProbeSucceeds(reply)
                /\ PassFinishes(id)
                /\ cachedEndpoint' = passes[id].endpoint
                /\ cachedBy' = id
                /\ lastPass'.result = "return"
                /\ lastPass'.endpoint = cachedEndpoint']_vars

\* the cache holds the endpoint that the third pass found at the end of its
\* scan, after two ports before it had failed
C17_Witness ==
    /\ cachedBy = 3
    /\ lastPass.result = "return"
    /\ Len(lastPass.probes) = 3
    /\ lastPass.probes[3].ok
    /\ lastPass.probes[3].endpoint = cachedEndpoint
    /\ cachedEndpoint = Endpoint("63344")

\* C18: no step of a request handler (start, reply, response; list-tools or
\* call-tool; returning or throwing) changes cachedEndpoint or
\* previousResponse, starts or advances a resolution pass, or sends a
\* tool-list-changed notification.
C18_RequestsLeaveResolverAlone ==
    [][request' # request =>
          UNCHANGED <<cachedEndpoint, cachedBy, previousResponse, passes,
                      started, lastPass, notifications, pc>>]_vars

\* a list-tools request has returned a tool list that differs from the
\* payload stored by the probes, and nothing was notified
C18_Witness ==
    /\ request.kind = "list"
    /\ request.pc = "done"
    /\ request.outcome = "returned"
    /\ request.text = "[T1]"
    /\ previousResponse = "P1"
    /\ notifications = 0

\* C19: testListTools never throws, and for a probe that fails (fetch
\* rejected, non-2xx status, body read rejected) it reports false, leaves
\* previousResponse as it was and notifies nothing; the step records the probe
\* as failed, leaves cachedEndpoint and the notifications as they were, and
\* changes previousResponse only through the reset that ends a failed scan.
C19_FailedProbeReportsUnreachable ==
    [][\A id \in 1..MaxPasses : \A reply \in ProbeReplies :
          LET tested == testListTools(reply, previousResponse, notifications)
              probes == IF PassFinishes(id) THEN lastPass'.probes
                        ELSE passes'[id].probes
          IN /\ ~tested.threw
             /\ (~ProbeSucceeds(reply) /\ ProbeReply(id, reply)) =>
                   /\ ~tested.working
                   /\ tested.previousResponse = previousResponse
                   /\ tested.notifications = notifications
                   /\ ~probes[Len(probes)].ok
                   /\ notifications' = notifications
                   /\ cachedEndpoint' = cachedEndpoint
                   /\ \/ previousResponse' = previousResponse
                      \/ /\ lastPass'.error = ScanError
                         /\ PassFinishes(id)
                         /\ previousResponse' = ""]_vars

\* a pass goes on after a failed first probe, with the stored payload and
\* the cached endpoint of an earlier pass in place and nothing notified
C19_Witness ==
    /\ \E id \in 1..MaxPasses :
          /\ passes[id].pc = "probing"
          /\ Len(passes[id].probes) = 1
          /\ ~passes[id].probes[1].ok
    /\ previousResponse = "P1"
    /\ cachedEndpoint = Endpoint("63342")
    /\ notifications = 0

\* C20: the cache is never overwritten with the result of a resolution pass
\* that started earlier than the pass whose result it holds.
C20_CacheWrittenInStartOrder ==
    [][cachedBy' # cachedBy => cachedBy' > cachedBy]_vars

====
